---- MODULE Spec2Model ----
(***************************************************************************)
(* Model of binexp_parser.py: the BinOpAst class (construction from a      *)
(* prefix token list, the three serialisers, and the in-place             *)
(* simplification passes).  Python objects live in a heap indexed by       *)
(* object identity; a token and every string is a sequence of characters.  *)
(***************************************************************************)
EXTENDS Integers, Sequences, FiniteSets, TLC

\* ---------------------------------------------------------------- bounds
MaxLen == 5

\* The tokens the caller's list is drawn from: four operator symbols and
\* three unsigned integer literals, one of them with two digits.
Tokens == { <<"+">>, <<"-">>, <<"*">>, <<"/">>, <<"0">>, <<"1">>, <<"1", "0">> }

TokenLists == UNION { [1..n -> Tokens] : n \in 0..MaxLen }

\* ------------------------------------------------------- the program
Digits == {"0", "1", "2", "3", "4", "5", "6", "7", "8", "9"}

\* str.isnumeric(): non-empty and every character numeric
isnumeric(s) == Len(s) > 0 /\ \A i \in 1..Len(s) : s[i] \in Digits

\* NodeType = Enum('BinOpNodeType', ['number', 'operator'])
NodeType == [number |-> "number", operator |-> "operator"]

\* the value Python stores in the child slots of a number node
False == 0

\* the caller's variable before / without a constructed object
None == "None"

VARIABLES
    tokens,       \* the caller's retained copy of the token sequence T
    prefix_list,  \* the list handed to BinOpAst(...), drained by the constructor
    heap,         \* the BinOpAst objects: identity -> [val, type, left, right]
    tree,         \* the caller's reference to the root object, or None
    pc,           \* "start", "built" (constructor returned), "raised" (it threw)
    orig,         \* the heap as the constructor left it
    pre,          \* the heap before the most recent method call
    last,         \* name of the most recent method call
    ret           \* what the most recent method call returned

vars == <<tokens, prefix_list, heap, tree, pc, orig, pre, last, ret>>

\* Variant of the constructor that takes a default literal instead of
\* raising when the list has run out.
RECURSIVE BinOpAst_default(_, _)
BinOpAst_default(h, lst) ==
    LET val  == IF lst = <<>> THEN <<"0">> ELSE Head(lst)
        rest == IF lst = <<>> THEN <<>> ELSE Tail(lst)
        self == Len(h) + 1
    IN  IF isnumeric(val)
        THEN [ok   |-> TRUE,
              heap |-> Append(h, [val |-> val, type |-> NodeType.number,
                                  left |-> False, right |-> False]),
              list |-> rest,
              self |-> self]
        ELSE LET h0 == Append(h, [val |-> val, type |-> NodeType.operator,
                                  left |-> False, right |-> False])
                 L  == BinOpAst_default(h0, rest)
                 h1 == [L.heap EXCEPT ![self].left = L.self]
                 R  == BinOpAst_default(h1, L.list)
             IN  [ok   |-> TRUE,
                  heap |-> [R.heap EXCEPT ![self].right = R.self],
                  list |-> R.list,
                  self |-> self]

\* BinOpAst.__init__: the object `self` is allocated, then initialised from
\* the shared list.  Result: whether it returned normally, the heap, the
\* remaining list and the identity of the new object.
RECURSIVE BinOpAst(_, _)
BinOpAst(h, lst) ==
    IF lst = <<>>
    THEN \* prefix_list.pop(0) on an empty list raises IndexError
         [ok |-> FALSE, heap |-> h, list |-> lst, self |-> False]
    ELSE LET val  == Head(lst)
             rest == Tail(lst)
             self == Len(h) + 1
         IN  IF isnumeric(val)
             THEN [ok   |-> TRUE,
                   heap |-> Append(h, [val |-> val, type |-> NodeType.number,
                                       left |-> False, right |-> False]),
                   list |-> rest,
                   self |-> self]
             ELSE LET h0 == Append(h, [val |-> val, type |-> NodeType.operator,
                                       left |-> False, right |-> False])
                      L  == BinOpAst(h0, rest)
                  IN  IF ~L.ok
                      THEN [ok |-> FALSE, heap |-> L.heap, list |-> L.list, self |-> False]
                      ELSE LET h1 == [L.heap EXCEPT ![self].left = L.self]
                               R  == BinOpAst(h1, L.list)
                           IN  IF ~R.ok
                               THEN [ok |-> FALSE, heap |-> R.heap, list |-> R.list,
                                     self |-> False]
                               ELSE [ok   |-> TRUE,
                                     heap |-> [R.heap EXCEPT ![self].right = R.self],
                                     list |-> R.list,
                                     self |-> self]

\* Variant of prefix_str that emits the right operand before the left.
RECURSIVE prefix_str_swapped(_, _)
prefix_str_swapped(h, self) ==
    IF h[self].type = NodeType.number
    THEN h[self].val
    ELSE h[self].val \o <<" ">> \o prefix_str_swapped(h, h[self].right)
                     \o <<" ">> \o prefix_str_swapped(h, h[self].left)

RECURSIVE prefix_str(_, _)
prefix_str(h, self) ==
    IF h[self].type = NodeType.number
    THEN h[self].val
    ELSE h[self].val \o <<" ">> \o prefix_str(h, h[self].left)
                     \o <<" ">> \o prefix_str(h, h[self].right)

RECURSIVE infix_str(_, _)
infix_str(h, self) ==
    IF h[self].type = NodeType.number
    THEN h[self].val
    ELSE <<"(">> \o infix_str(h, h[self].left) \o <<" ">> \o h[self].val
                 \o <<" ">> \o infix_str(h, h[self].right) \o <<")">>

RECURSIVE postfix_str(_, _)
postfix_str(h, self) ==
    IF h[self].type = NodeType.number
    THEN h[self].val
    ELSE postfix_str(h, h[self].left) \o <<" ">> \o postfix_str(h, h[self].right)
                                      \o <<" ">> \o h[self].val

\* Variant of additive_identity that examines the node before recursing
\* into its children (pre-order instead of post-order).
RECURSIVE additive_identity_preorder(_, _)
additive_identity_preorder(h, self) ==
    IF h[self].type = NodeType.number
    THEN h
    ELSE LET h0 ==
                 IF h[self].val = <<"*">>
                 THEN h
                 ELSE IF h[h[self].left].val = <<"0">>
                 THEN LET a == [h EXCEPT ![self].val   = h[h[self].right].val]
                          b == [a EXCEPT ![self].type  = a[a[self].right].type]
                          c == [b EXCEPT ![self].left  = b[b[self].right].left]
                      IN       [c EXCEPT ![self].right = c[c[self].right].right]
                 ELSE IF h[h[self].right].val = <<"0">>
                 THEN LET a == [h EXCEPT ![self].val   = h[h[self].left].val]
                          b == [a EXCEPT ![self].type  = a[a[self].left].type]
                          c == [b EXCEPT ![self].right = b[b[self].left].right]
                      IN       [c EXCEPT ![self].left  = c[c[self].left].left]
                 ELSE h
         IN  IF h0[self].type = NodeType.number
             THEN h0
             ELSE LET h1 == additive_identity_preorder(h0, h0[self].left)
                  IN  additive_identity_preorder(h1, h1[self].right)

\* Variant of additive_identity whose replacement by the right child
\* forgets the last assignment, self.right = self.right.right.
RECURSIVE additive_identity_keepright(_, _)
additive_identity_keepright(h, self) ==
    IF h[self].type = NodeType.number
    THEN h
    ELSE LET h1 == additive_identity_keepright(h, h[self].left)
             h2 == additive_identity_keepright(h1, h1[self].right)
         IN  IF h2[self].val = <<"*">>
             THEN h2
             ELSE IF h2[h2[self].left].val = <<"0">>
             THEN LET a == [h2 EXCEPT ![self].val   = h2[h2[self].right].val]
                      b == [a  EXCEPT ![self].type  = a[a[self].right].type]
                  IN       [b  EXCEPT ![self].left  = b[b[self].right].left]
             ELSE IF h2[h2[self].right].val = <<"0">>
             THEN LET a == [h2 EXCEPT ![self].val   = h2[h2[self].left].val]
                      b == [a  EXCEPT ![self].type  = a[a[self].left].type]
                      c == [b  EXCEPT ![self].right = b[b[self].left].right]
                  IN       [c  EXCEPT ![self].left  = c[c[self].left].left]
             ELSE h2

RECURSIVE additive_identity(_, _)
additive_identity(h, self) ==
    IF h[self].type = NodeType.number
    THEN h
    ELSE LET h1 == additive_identity(h, h[self].left)
             h2 == additive_identity(h1, h1[self].right)
         IN  IF h2[self].val = <<"*">>
             THEN h2
             ELSE IF h2[h2[self].left].val = <<"0">>
             THEN LET a == [h2 EXCEPT ![self].val   = h2[h2[self].right].val]
                      b == [a  EXCEPT ![self].type  = a[a[self].right].type]
                      c == [b  EXCEPT ![self].left  = b[b[self].right].left]
                  IN       [c  EXCEPT ![self].right = c[c[self].right].right]
             ELSE IF h2[h2[self].right].val = <<"0">>
             THEN LET a == [h2 EXCEPT ![self].val   = h2[h2[self].left].val]
                      b == [a  EXCEPT ![self].type  = a[a[self].left].type]
                      c == [b  EXCEPT ![self].right = b[b[self].left].right]
                  IN       [c  EXCEPT ![self].left  = c[c[self].left].left]
             ELSE h2

RECURSIVE multiplicative_identity(_, _)
multiplicative_identity(h, self) ==
    IF h[self].type = NodeType.number
    THEN h
    ELSE LET h1 == multiplicative_identity(h, h[self].left)
             h2 == multiplicative_identity(h1, h1[self].right)
         IN  IF h2[self].val = <<"+">>
             THEN h2
             ELSE IF h2[h2[self].left].val = <<"1">>
             THEN LET a == [h2 EXCEPT ![self].val   = h2[h2[self].right].val]
                      b == [a  EXCEPT ![self].type  = a[a[self].right].type]
                      c == [b  EXCEPT ![self].left  = b[b[self].right].left]
                  IN       [c  EXCEPT ![self].right = c[c[self].right].right]
             ELSE IF h2[h2[self].right].val = <<"1">>
             THEN LET a == [h2 EXCEPT ![self].val   = h2[h2[self].left].val]
                      b == [a  EXCEPT ![self].type  = a[a[self].left].type]
                      c == [b  EXCEPT ![self].right = b[b[self].left].right]
                  IN       [c  EXCEPT ![self].left  = c[c[self].left].left]
             ELSE h2

\* the body of mult_by_zero is its docstring only
mult_by_zero(h, self) == h

\* the body of constant_fold is `pass`
constant_fold(h, self) == h

simplify_binops(h, self) ==
    multiplicative_identity(additive_identity(h, self), self)

\* ------------------------------------------------------- state machine
Init ==
    /\ tokens \in TokenLists
    /\ prefix_list = tokens
    /\ heap = <<>>
    /\ tree = None
    /\ pc = "start"
    /\ orig = <<>>
    /\ pre = <<>>
    /\ last = None
    /\ ret = None

\* tree = BinOpAst(prefix_list)
Construct ==
    /\ pc = "start"
    /\ LET r == BinOpAst(heap, prefix_list)
       IN  /\ prefix_list' = r.list
           /\ IF r.ok
              THEN /\ heap' = r.heap
                   /\ tree' = r.self
                   /\ pc' = "built"
              ELSE \* the exception unwinds every constructor frame; the
                   \* assignment to `tree` never happens and the objects
                   \* allocated so far are unreachable
                   /\ heap' = <<>>
                   /\ tree' = None
                   /\ pc' = "raised"
    /\ orig' = heap'
    /\ pre' = heap
    /\ last' = "__init__"
    /\ ret' = None
    /\ UNCHANGED tokens

\* tree.additive_identity()
CallAdditiveIdentity ==
    /\ pc = "built"
    /\ heap' = additive_identity(heap, tree)
    /\ pre' = heap
    /\ last' = "additive_identity"
    /\ ret' = None
    /\ UNCHANGED <<tokens, prefix_list, tree, pc, orig>>

\* tree.multiplicative_identity()
CallMultiplicativeIdentity ==
    /\ pc = "built"
    /\ heap' = multiplicative_identity(heap, tree)
    /\ pre' = heap
    /\ last' = "multiplicative_identity"
    /\ ret' = None
    /\ UNCHANGED <<tokens, prefix_list, tree, pc, orig>>

\* tree.mult_by_zero()
CallMultByZero ==
    /\ pc = "built"
    /\ heap' = mult_by_zero(heap, tree)
    /\ pre' = heap
    /\ last' = "mult_by_zero"
    /\ ret' = None
    /\ UNCHANGED <<tokens, prefix_list, tree, pc, orig>>

\* tree.constant_fold()
CallConstantFold ==
    /\ pc = "built"
    /\ heap' = constant_fold(heap, tree)
    /\ pre' = heap
    /\ last' = "constant_fold"
    /\ ret' = None
    /\ UNCHANGED <<tokens, prefix_list, tree, pc, orig>>

\* tree.simplify_binops()
CallSimplifyBinops ==
    /\ pc = "built"
    /\ heap' = simplify_binops(heap, tree)
    /\ pre' = heap
    /\ last' = "simplify_binops"
    /\ ret' = None
    /\ UNCHANGED <<tokens, prefix_list, tree, pc, orig>>

\* actual_output = tree.prefix_str()
CallPrefixStr ==
    /\ pc = "built"
    /\ ret' = prefix_str(heap, tree)
    /\ pre' = heap
    /\ last' = "prefix_str"
    /\ UNCHANGED <<tokens, prefix_list, heap, tree, pc, orig>>

\* tree.infix_str()
CallInfixStr ==
    /\ pc = "built"
    /\ ret' = infix_str(heap, tree)
    /\ pre' = heap
    /\ last' = "infix_str"
    /\ UNCHANGED <<tokens, prefix_list, heap, tree, pc, orig>>

\* tree.postfix_str()
CallPostfixStr ==
    /\ pc = "built"
    /\ ret' = postfix_str(heap, tree)
    /\ pre' = heap
    /\ last' = "postfix_str"
    /\ UNCHANGED <<tokens, prefix_list, heap, tree, pc, orig>>

Next ==
    \/ Construct
    \/ CallAdditiveIdentity
    \/ CallMultiplicativeIdentity
    \/ CallMultByZero
    \/ CallConstantFold
    \/ CallSimplifyBinops
    \/ CallPrefixStr
    \/ CallInfixStr
    \/ CallPostfixStr

Spec == Init /\ [][Next]_vars

\* ------------------------------------------------- auxiliary notions
Built == pc = "built"

Passes == {"additive_identity", "multiplicative_identity", "mult_by_zero",
           "constant_fold", "simplify_binops"}

\* Joining a token list with single spaces.
RECURSIVE Join(_)
Join(ts) ==
    IF ts = <<>> THEN <<>>
    ELSE IF Len(ts) = 1 THEN ts[1]
    ELSE ts[1] \o <<" ">> \o Join(Tail(ts))

\* Operands still owed after reading ts[1..k] of a prefix expression
\* (-1 once the first complete expression has ended before position k).
RECURSIVE Owed(_, _)
Owed(ts, k) ==
    IF k = 0 THEN 1
    ELSE LET o == Owed(ts, k - 1)
         IN  IF o <= 0 THEN -1
             ELSE IF isnumeric(ts[k]) THEN o - 1 ELSE o + 1

\* ts is exactly one prefix expression
WellFormed(ts) == Len(ts) > 0 /\ Owed(ts, Len(ts)) = 0

\* ts is empty, or runs out while an operator still lacks an operand
Exhausted(ts) == Owed(ts, Len(ts)) > 0

\* The objects met walking down from n, one entry per path; a walk that is
\* still going after `fuel` steps reports its last object twice.
RECURSIVE Walk(_, _, _)
Walk(h, n, fuel) ==
    IF fuel = 0 THEN <<n, n>>
    ELSE <<n>> \o (IF h[n].left  # False THEN Walk(h, h[n].left,  fuel - 1) ELSE <<>>)
               \o (IF h[n].right # False THEN Walk(h, h[n].right, fuel - 1) ELSE <<>>)

Reach(h, n) == Walk(h, n, Len(h))

NodesOf(h, n) == { Reach(h, n)[i] : i \in 1..Len(Reach(h, n)) }

\* the mathematical tree below object n: <<val>> or <<val, left, right>>
RECURSIVE Term(_, _)
Term(h, n) ==
    IF h[n].type = NodeType.number THEN <<h[n].val>>
    ELSE <<h[n].val, Term(h, h[n].left), Term(h, h[n].right)>>

RECURSIVE TermPrefix(_)
TermPrefix(t) ==
    IF Len(t) = 1 THEN t[1]
    ELSE t[1] \o <<" ">> \o TermPrefix(t[2]) \o <<" ">> \o TermPrefix(t[3])

\* Post-order elimination of the identity `unit` of operator `sym`.
RECURSIVE Reduce(_, _, _)
Reduce(t, sym, unit) ==
    IF Len(t) = 1 THEN t
    ELSE LET l == Reduce(t[2], sym, unit)
             r == Reduce(t[3], sym, unit)
         IN  IF t[1] # sym THEN <<t[1], l, r>>
             ELSE IF l = <<unit>> THEN r
             ELSE IF r = <<unit>> THEN l
             ELSE <<t[1], l, r>>

\* an operator `sym` with a leaf `unit` as a child occurs in t
RECURSIVE HasRedex(_, _, _)
HasRedex(t, sym, unit) ==
    /\ Len(t) = 3
    /\ \/ t[1] = sym /\ (t[2] = <<unit>> \/ t[3] = <<unit>>)
       \/ HasRedex(t[2], sym, unit)
       \/ HasRedex(t[3], sym, unit)

TypeOK == pc \in {"start", "built", "raised"}

\* ------------------------------------------------------------- claims

\* C1: round trip -- for a well-formed prefix token sequence T, building the
\* tree from a copy of T and calling prefix_str returns the tokens of T in
\* order, joined by single spaces.
C1_RoundTrip ==
    (Built /\ last = "prefix_str" /\ heap = orig /\ WellFormed(tokens))
        => (ret = Join(tokens) /\ prefix_list = <<>>)

C1_Witness ==
    /\ Built /\ last = "prefix_str" /\ heap = orig /\ WellFormed(tokens)
    /\ Len(tokens) = 5
    /\ \E i \in 1..5 : Len(tokens[i]) = 2
    /\ ret = Join(tokens)

\* C2: after one call of additive_identity no '+' operator with a leaf `0`
\* child remains anywhere in the tree, and prefix_str of the result is the
\* input with each such node replaced by its other, already reduced, child.
C2_AdditiveIdentity ==
    (Built /\ last = "additive_identity")
        => /\ ~HasRedex(Term(heap, tree), <<"+">>, <<"0">>)
           /\ prefix_str(heap, tree)
                = TermPrefix(Reduce(Term(pre, tree), <<"+">>, <<"0">>))

\* C3: after one call of multiplicative_identity no '*' operator with a leaf
\* `1` child remains anywhere in the tree, and prefix_str of the result is
\* the input with each such node replaced by its other, already reduced,
\* child.
C3_MultiplicativeIdentity ==
    (Built /\ last = "multiplicative_identity")
        => /\ ~HasRedex(Term(heap, tree), <<"*">>, <<"1">>)
           /\ prefix_str(heap, tree)
                = TermPrefix(Reduce(Term(pre, tree), <<"*">>, <<"1">>))

\* the root of h is a '*' operator with a leaf `0` as one of its children
TimesZeroRoot(h, n) ==
    /\ h[n].type = NodeType.operator
    /\ h[n].val = <<"*">>
    /\ \/ Term(h, h[n].left) = << <<"0">> >>
       \/ Term(h, h[n].right) = << <<"0">> >>

\* C4: building `* x 0` or `* 0 y`, calling mult_by_zero and then prefix_str
\* yields the string `0`.
C4_MultByZero ==
    (Built /\ last = "mult_by_zero" /\ pre = orig /\ TimesZeroRoot(pre, tree))
        => prefix_str(heap, tree) = <<"0">>

\* object n holds the same symbol and the same two child slots in h and g
SameNode(h, g, n) ==
    /\ g[n].val = h[n].val
    /\ g[n].type = h[n].type
    /\ g[n].left = h[n].left
    /\ g[n].right = h[n].right

\* C5: additive_identity rewrites an operator node only when its symbol is
\* exactly '+': every operator node with another symbol keeps its symbol
\* and both child slots, even when one of its children is the leaf `0`.
C5_AdditiveOnlyPlus ==
    (Built /\ last = "additive_identity")
        => \A n \in NodesOf(pre, tree) :
              (pre[n].type = NodeType.operator /\ pre[n].val # <<"+">>)
                  => SameNode(pre, heap, n)

\* C6: multiplicative_identity rewrites an operator node only when its
\* symbol is exactly '*': every operator node with another symbol keeps its
\* symbol and both child slots, even when one of its children is the leaf
\* `1`.
C6_MultiplicativeOnlyTimes ==
    (Built /\ last = "multiplicative_identity")
        => \A n \in NodesOf(pre, tree) :
              (pre[n].type = NodeType.operator /\ pre[n].val # <<"*">>)
                  => SameNode(pre, heap, n)

\* the pass called `name`, as a function on heaps
ApplyPass(name, h, self) ==
    CASE name = "additive_identity"       -> additive_identity(h, self)
      [] name = "multiplicative_identity" -> multiplicative_identity(h, self)
      [] name = "mult_by_zero"            -> mult_by_zero(h, self)
      [] name = "constant_fold"           -> constant_fold(h, self)

SinglePasses == {"additive_identity", "multiplicative_identity",
                 "mult_by_zero", "constant_fold"}

\* C7: idempotence -- once one of additive_identity, multiplicative_identity,
\* mult_by_zero, constant_fold has been applied, applying the same pass
\* again leaves the same tree (same prefix_str).
C7_Idempotent ==
    (Built /\ last \in SinglePasses)
        => LET again == ApplyPass(last, heap, tree)
           IN  /\ prefix_str(again, tree) = prefix_str(heap, tree)
               /\ Term(again, tree) = Term(heap, tree)

C7_Witness ==
    /\ Built
    /\ last = "additive_identity"
    /\ Len(Reach(pre, tree)) = 5
    /\ Len(Reach(heap, tree)) = 1
    /\ additive_identity(heap, tree) = heap

\* C8: if the token sequence is empty at the start, or is exhausted while
\* some operator still lacks one of its two operands, constructing BinOpAst
\* ends in an error that reaches the caller, and no tree is returned.
C8_MalformedRaises ==
    (pc # "start" /\ Exhausted(tokens))
        => (pc = "raised" /\ tree = None /\ heap = <<>>)

C8_Witness ==
    /\ pc = "raised"
    /\ tree = None
    /\ Len(tokens) = 4
    /\ ~isnumeric(tokens[1])
    /\ isnumeric(tokens[4])
    /\ prefix_list = <<>>

\* ---- exact arithmetic on fractions <<numerator, denominator>>; a zero
\* denominator stands for an undefined value (a division by zero below)
RECURSIVE ToInt(_)
ToInt(s) ==
    IF s = <<>> THEN 0
    ELSE 10 * ToInt(SubSeq(s, 1, Len(s) - 1))
           + (CHOOSE d \in 0..9 : ToString(d) = s[Len(s)])

Undefined == <<0, 0>>

Arith(sym, a, b) ==
    IF a[2] = 0 \/ b[2] = 0 THEN Undefined
    ELSE CASE sym = <<"+">> -> <<a[1] * b[2] + b[1] * a[2], a[2] * b[2]>>
           [] sym = <<"-">> -> <<a[1] * b[2] - b[1] * a[2], a[2] * b[2]>>
           [] sym = <<"*">> -> <<a[1] * b[1], a[2] * b[2]>>
           [] sym = <<"/">> -> IF b[1] = 0 THEN Undefined
                               ELSE <<a[1] * b[2], a[2] * b[1]>>
           [] OTHER -> Undefined

RECURSIVE Value(_)
Value(t) ==
    IF Len(t) = 1 THEN <<ToInt(t[1]), 1>>
    ELSE Arith(t[1], Value(t[2]), Value(t[3]))

Defined(v) == v[2] # 0

SameValue(a, b) == a[1] * b[2] = b[1] * a[2]

\* C9: for a tree over '+', '-', '*', '/' with every division defined, the
\* arithmetic value after simplify_binops, after additive_identity alone and
\* after multiplicative_identity alone equals the value before the call.
C9_ValuePreserved ==
    (/\ Built
     /\ last \in {"simplify_binops", "additive_identity", "multiplicative_identity"}
     /\ Defined(Value(Term(pre, tree))))
        => /\ Defined(Value(Term(heap, tree)))
           /\ SameValue(Value(Term(heap, tree)), Value(Term(pre, tree)))

\* every object below n is a number without children or an operator with
\* two child objects
WellShaped(h, n) ==
    \A k \in NodesOf(h, n) :
        \/ /\ h[k].type = NodeType.number
           /\ h[k].left = False
           /\ h[k].right = False
        \/ /\ h[k].type = NodeType.operator
           /\ h[k].left \in 1..Len(h)
           /\ h[k].right \in 1..Len(h)

\* no object is met on two different paths from n
StrictTree(h, n) ==
    \A i, j \in 1..Len(Reach(h, n)) :
        Reach(h, n)[i] = Reach(h, n)[j] => i = j

\* C10: after construction and after any sequence of calls of the passes,
\* every reachable node is a number without children or an operator with
\* exactly two children, no node is reachable by two different paths, and
\* there are never more reachable nodes than in the original tree.
C10_TreeShape ==
    Built => /\ WellShaped(heap, tree)
             /\ StrictTree(heap, tree)
             /\ Cardinality(NodesOf(heap, tree)) <= Cardinality(NodesOf(orig, tree))

C10_Witness ==
    /\ Built
    /\ last \in Passes
    /\ Cardinality(NodesOf(orig, tree)) = 5
    /\ Cardinality(NodesOf(heap, tree)) = 3
    /\ heap[tree].left # orig[tree].left
====
